---------------------------- MODULE Spec2Model ----------------------------
(***************************************************************************)
(* The flower-classification notebook (guide.ipynb) as a state machine.    *)
(*                                                                         *)
(* The notebook is a list of code cells that a single kernel executes in   *)
(* document order.  Every cell is glue over tf.keras: the directory        *)
(* iterator built by ImageDataGenerator.flow_from_directory, the VGG19     *)
(* factory, Dense/Dropout/Model/compile and Model.fit.  A call is modelled *)
(* by what the library does for the arguments the cell passes:             *)
(*   - flow_from_directory lists the class sub-directories, sorts them,    *)
(*     numbers them (class_indices) and lists the files class by class;    *)
(*   - next(flow) is Iterator._flow_index: a new index array (a random     *)
(*     permutation when shuffle is on) at batch_index 0, a slice of at     *)
(*     most batch_size indices, wrap-around at the end of a pass;          *)
(*   - flow[i] / len(flow) / on_epoch_end() are the Sequence interface     *)
(*     Model.fit drives;                                                   *)
(*   - a training step changes the weights of the trainable layers of the  *)
(*     model and of no other layer.                                        *)
(* numpy's global generator is a state: np.random.seed(1234) puts it in a  *)
(* fixed state, from which the first draw is a fixed (unknown) value; any  *)
(* later draw is unconstrained.                                            *)
(***************************************************************************)
EXTENDS Integers, Sequences, FiniteSets, TLC

(***************************************************************************)
(* Bounds of the model.                                                    *)
(***************************************************************************)
\* class-directory counts range over NumLabels - MaxMissingDirs .. NumLabels + MaxExtraDirs
MaxMissingDirs == 1
MaxExtraDirs == 1
\* dataset sizes are r and TrainBatchSize + r for r in 0 .. MaxRemainder (never 0)
MaxRemainder == 1
\* sizes and number of next() calls of the stand-alone iterator specification
MaxFlowSamples == 6
MaxNext == 4
\* layers of the headless feature extractor
NumPretrainedLayers == 3

(***************************************************************************)
(* Program constants.                                                      *)
(***************************************************************************)
NumLabels == 17
SanityBatchSize == 4
TrainBatchSize == 32
Seed == 1234
AugRuns == 5
NumUnits == 17
TargetSize == 224
NumCells == 20

None == 0

(***************************************************************************)
(* Sequences and sorting.                                                  *)
(***************************************************************************)
Range(s) == {s[i] : i \in DOMAIN s}

Min2(a, b) == IF a < b THEN a ELSE b

\* Python's s[lo:hi] on a 0-based list, as a 1-based sequence
Slice(s, lo, hi) ==
    LET h == Min2(hi, Len(s))
    IN  IF lo >= h THEN <<>> ELSE [k \in 1..(h - lo) |-> s[lo + k]]

RECURSIVE InsertSorted(_, _)
InsertSorted(s, x) ==
    IF s = <<>> THEN <<x>>
    ELSE IF x <= Head(s) THEN <<x>> \o s
    ELSE <<Head(s)>> \o InsertSorted(Tail(s), x)

\* (mutant) the listing taken as it comes
Unsorted(s) == s

\* sorted(list): insertion sort, class names compare by their place in the catalogue
RECURSIVE Sorted(_)
Sorted(s) == IF s = <<>> THEN <<>> ELSE InsertSorted(Sorted(Tail(s)), Head(s))

Identity(n) == [k \in 1..n |-> k - 1]
Reversed(s) == [k \in 1..Len(s) |-> s[Len(s) + 1 - k]]
Rotated(s) == IF s = <<>> THEN s ELSE Tail(s) \o <<Head(s)>>

\* the outcomes of np.random.permutation(n) the model draws from
PermKinds == {"id", "rev", "rot"}
Permute(kind, n) ==
    CASE kind = "id"  -> Identity(n)
      [] kind = "rev" -> Reversed(Identity(n))
      [] OTHER        -> Rotated(Identity(n))

(***************************************************************************)
(* The dataset on disk: flowers/<part>/<class name>/<image files>.         *)
(* A class name is its place in an alphabetically ordered catalogue of     *)
(* names, so alphabetical order is numeric order.                          *)
(***************************************************************************)
Parts == {"train", "val"}
MaxClassDirs == NumLabels + MaxExtraDirs + 1
ClassNames == 1..MaxClassDirs

\* os.listdir returns the entries in an arbitrary order
RECURSIVE SetToSeq(_)
SetToSeq(S) ==
    IF S = {} THEN <<>>
    ELSE LET x == CHOOSE x \in S : \A z \in S : x <= z
         IN  <<x>> \o SetToSeq(S \ {x})

Listings(S) == {SetToSeq(S), Reversed(SetToSeq(S)), Rotated(SetToSeq(S))}

\* the files of a directory with n images over the class set S, the first image
\* in the class at place `first` of S, the following ones in the classes after it
FilesOf(S, n, first) ==
    LET names == SetToSeq(S)
        c == Len(names)
    IN  [nm \in S |-> Cardinality({i \in 0..(n - 1) : names[((first + i) % c) + 1] = nm})]

NoDir == [exists |-> FALSE, files |-> [nm \in {} |-> 0]]

\* the pixels of the k-th file (0-based, in listing order) of a part: a row of two
FileImage(k) == <<2 * k + 1, 2 * k + 2>>

\* the mirror image (horizontal flip)
Mirror(img) == Reversed(img)

\* vgg19.preprocess_input: zero-centres every pixel, no geometric change
Preprocess(img) == [k \in DOMAIN img |-> img[k] - 1]

(***************************************************************************)
(* DirectoryIterator.                                                      *)
(***************************************************************************)
\* class_indices as the sorted list of names: class_indices[name] = place - 1
IndexOf(classNames, nm) == (CHOOSE k \in DOMAIN classNames : classNames[k] = nm) - 1

\* one-hot row of width w with the 1 at 0-based place c
OneHot(c, w) == [k \in 1..w |-> IF k = c + 1 THEN 1 ELSE 0]

\* np.argmax: 0-based place of the first maximum
ArgMax(v) ==
    (CHOOSE k \in DOMAIN v :
        /\ \A j \in DOMAIN v : v[j] <= v[k]
        /\ \A j \in DOMAIN v : j < k => v[j] < v[k]) - 1

\* the class index of every file, files listed class by class in class order
RECURSIVE ClassesArray(_, _, _)
ClassesArray(classNames, files, k) ==
    IF k > Len(classNames) THEN <<>>
    ELSE [j \in 1..files[classNames[k]] |-> k - 1]
             \o ClassesArray(classNames, files, k + 1)

\* (mutant) the classes numbered in reverse order by flows of batch size 1
NewFlowOwnOrder(part, dir, listing, batchSize, shuffle, target, gen) ==
    LET classNames == IF batchSize = 1 THEN Reversed(Sorted(listing))
                      ELSE Sorted(listing)
        classes == ClassesArray(classNames, dir.files, 1)
    IN  [directory |-> part,
         class_names |-> classNames,
         classes |-> classes,
         n |-> Len(classes),
         batch_size |-> batchSize,
         shuffle |-> shuffle,
         target_size |-> target,
         horizontal_flip |-> gen.horizontal_flip,
         preprocessing |-> gen.preprocessing,
         batch_index |-> 0,
         total_batches_seen |-> 0,
         index_array |-> <<>>]

\* flow_from_directory(part, ...) for one listing order of the directory
NewFlow(part, dir, listing, batchSize, shuffle, target, gen) ==
    LET classNames == Sorted(listing)
        classes == ClassesArray(classNames, dir.files, 1)
    IN  [directory |-> part,
         class_names |-> classNames,
         classes |-> classes,
         n |-> Len(classes),
         batch_size |-> batchSize,
         shuffle |-> shuffle,
         target_size |-> target,
         horizontal_flip |-> gen.horizontal_flip,
         preprocessing |-> gen.preprocessing,
         batch_index |-> 0,
         total_batches_seen |-> 0,
         index_array |-> <<>>]

\* (mutant) the partial batch at the end of a pass dropped
FlowLenFloor(f) == f.n \div f.batch_size

\* len(flow)
FlowLen(f) == (f.n + f.batch_size - 1) \div f.batch_size

\* one sample of a batch: load, random transform, preprocessing function
Transformed(f, k, flipped) ==
    LET img == FileImage(k)
        aug == IF f.horizontal_flip /\ flipped THEN Mirror(img) ELSE img
    IN  IF f.preprocessing THEN Preprocess(aug) ELSE aug

\* (mutant) every row labelled with the class of the first sample of the batch
BatchOfFirstLabel(f, idx, flips) ==
    [directory |-> f.directory,
     idx |-> idx,
     order |-> f.index_array,
     X |-> [j \in DOMAIN idx |-> Transformed(f, idx[j], flips[j])],
     y |-> [j \in DOMAIN idx |-> OneHot(f.classes[idx[1] + 1], Len(f.class_names))]]

\* _get_batches_of_transformed_samples(index_array); `order` notes the pass's
\* index array the batch was cut from
BatchOf(f, idx, flips) ==
    [directory |-> f.directory,
     idx |-> idx,
     order |-> f.index_array,
     X |-> [j \in DOMAIN idx |-> Transformed(f, idx[j], flips[j])],
     y |-> [j \in DOMAIN idx |-> OneHot(f.classes[idx[j] + 1], Len(f.class_names))]]


(***************************************************************************)
(* State.                                                                  *)
(***************************************************************************)
VARIABLES
    disk,           \* the directory tree: [root, train, val]
    seedKind,       \* what np.random.permutation returns right after seed(1234)
    seedFlip,       \* what `np.random.random() < 0.5` is right after seed(1234)
    rng,            \* numpy's global generator: Seed (just seeded) or Advanced
    pc,             \* the next cell of the notebook, in document order
    running,        \* the cells whose execution has started and not ended
    executed,       \* the cells whose execution has ended
    raised,         \* per cell, the exception that ended it ("" for none)
    names,          \* the names bound in the kernel's namespace
    checked,        \* what the existence check printed
    generator,      \* the ImageDataGenerator bound to `generator`
    batches,        \* the DirectoryIterator bound to `batches`
    train_batches,
    val_batches,
    indices,        \* class_indices, as the list of its keys in dict order
    labels,         \* the reverse encoding
    titles,         \* the labels the last sanity check displayed
    batch,          \* the batch most recently yielded by any iterator
    served,         \* per cell, the batches its for-loops received
    layers,         \* per layer object: [kind, trainable, w]
    pretrained,     \* the layers of the headless VGG19, in order
    preds,          \* the layers on the path from the input to the tensor `preds`
    model,          \* [layers, compiled, units]
    fit,            \* the Model.fit call in progress or last ended
    augRun          \* the loop variable i of the augmentation loop

vars == <<disk, seedKind, seedFlip, rng, pc, running, executed, raised, names, checked,
          generator, batches, train_batches, val_batches, indices, labels, titles,
          batch, served, layers, pretrained, preds, model, fit, augRun>>

Advanced == Seed + 1

(***************************************************************************)
(* numpy's global generator.                                               *)
(***************************************************************************)
\* np.random.permutation(n) from generator state r
PermDraws(r, n) ==
    IF r = Seed THEN {Permute(seedKind, n)} ELSE {Permute(k, n) : k \in PermKinds}

\* get_random_transform for a batch of m samples: the flip decisions.  The draw
\* `np.random.random() < 0.5` is made for every sample and multiplied by the flag.
FlipDraws(f, r, m) ==
    IF ~f.horizontal_flip THEN {[j \in 1..m |-> FALSE]}
    ELSE {fl \in [1..m -> BOOLEAN] : (r = Seed /\ m > 0) => fl[1] = seedFlip}

\* Iterator._set_index_array
SetIndexArray(f, r) ==
    IF f.shuffle THEN PermDraws(r, f.n) ELSE {Identity(f.n)}

AfterShuffle(f, r) == IF f.shuffle THEN Advanced ELSE r

\* next(flow): one round of Iterator._flow_index, then the batch
IterNext(f, r) ==
    LET fresh == f.batch_index = 0
        arrs == IF fresh THEN SetIndexArray(f, r) ELSE {f.index_array}
        r1 == IF fresh THEN AfterShuffle(f, r) ELSE r
        cur == IF f.n = 0 THEN 0 ELSE (f.batch_index * f.batch_size) % f.n
        bi == IF f.n > cur + f.batch_size THEN f.batch_index + 1 ELSE 0
    IN  UNION {
          LET idx == Slice(a, cur, cur + f.batch_size)
          IN  {[flow |-> [f EXCEPT !.index_array = a, !.batch_index = bi,
                                   !.total_batches_seen = @ + 1],
                batch |-> BatchOf([f EXCEPT !.index_array = a], idx, fl),
                rng |-> IF Len(idx) > 0 THEN Advanced ELSE r1]
               : fl \in FlipDraws(f, r1, Len(idx))}
          : a \in arrs}

\* flow[i]: Iterator.__getitem__
GetItem(f, r, i) ==
    LET fresh == f.index_array = <<>>
        arrs == IF fresh THEN SetIndexArray(f, r) ELSE {f.index_array}
        r1 == IF fresh THEN AfterShuffle(f, r) ELSE r
    IN  UNION {
          LET idx == Slice(a, f.batch_size * i, f.batch_size * (i + 1))
          IN  {[flow |-> [f EXCEPT !.index_array = a, !.total_batches_seen = @ + 1],
                batch |-> BatchOf([f EXCEPT !.index_array = a], idx, fl),
                rng |-> IF Len(idx) > 0 THEN Advanced ELSE r1]
               : fl \in FlipDraws(f, r1, Len(idx))}
          : a \in arrs}

\* flow.on_epoch_end()
OnEpochEnd(f, r) ==
    {[flow |-> [f EXCEPT !.index_array = a], rng |-> AfterShuffle(f, r)]
     : a \in SetIndexArray(f, r)}

(***************************************************************************)
(* Initial states.                                                         *)
(***************************************************************************)
ClassCounts == (NumLabels - MaxMissingDirs)..(NumLabels + MaxExtraDirs)
\* a class set: `count` consecutive names of the catalogue
ClassSets == {lo..(lo + c - 1) : lo \in 1..2, c \in ClassCounts} \cap SUBSET ClassNames
DatasetSizes == {r : r \in 1..MaxRemainder} \cup {TrainBatchSize + r : r \in 0..MaxRemainder}

NoGenerator == [horizontal_flip |-> FALSE, preprocessing |-> FALSE]
NoFlow == NewFlow("", NoDir, <<>>, 1, FALSE, 0, NoGenerator)
NoBatch == [directory |-> "", idx |-> <<>>, order |-> <<>>, X |-> <<>>, y |-> <<>>]
NoFit == [phase |-> "idle", cell |-> 0, steps_per_epoch |-> 0, validation_steps |-> 0,
          visited |-> {}, steps |-> 0, vsteps |-> 0, seen |-> <<>>, vseen |-> <<>>]
NoModel == [layers |-> {}, compiled |-> FALSE, units |-> 0]

Cells == 1..NumCells

KernelInit ==
    /\ rng = Advanced
    /\ pc = 1
    /\ running = {}
    /\ executed = {}
    /\ raised = [c \in Cells |-> ""]
    /\ names = {}
    /\ checked = <<>>
    /\ generator = NoGenerator
    /\ batches = NoFlow
    /\ train_batches = NoFlow
    /\ val_batches = NoFlow
    /\ indices = <<>>
    /\ labels = <<>>
    /\ titles = <<>>
    /\ batch = NoBatch
    /\ served = [c \in Cells |-> <<>>]
    /\ layers = [l \in {} |-> 0]
    /\ pretrained = <<>>
    /\ preds = <<>>
    /\ model = NoModel
    /\ fit = NoFit
    /\ augRun = 0

\* the class sets and sizes of flowers/train and flowers/val: the class sets vary
\* over one-image directories, the sizes (validation no larger than training)
\* over directories of the NumLabels classes 1..NumLabels
Canonical == 1..NumLabels
Shapes ==
    {[st |-> st, sv |-> sv, nt |-> 1, nv |-> 1] : st \in ClassSets, sv \in ClassSets \cap {Canonical}}
    \cup {[st |-> st, sv |-> st, nt |-> 1, nv |-> 1] : st \in ClassSets}
    \cup {sh \in [st : {Canonical}, sv : {Canonical}, nt : DatasetSizes, nv : DatasetSizes]
          : sh.nv <= sh.nt}

Init ==
    /\ seedKind \in PermKinds
    /\ seedFlip \in BOOLEAN
    /\ \E root, hasTrain, hasVal \in BOOLEAN :
       \E sh \in Shapes :
       \E first \in {0, Cardinality(sh.st) - 1} :
          /\ (hasTrain \/ hasVal) => root
          /\ ~hasTrain => (sh.st = Canonical /\ sh.nt = 1 /\ first = 0)
          /\ ~hasVal => (sh.sv = Canonical /\ sh.nv = 1)
          /\ disk = [root |-> root,
                     train |-> IF hasTrain
                               THEN [exists |-> TRUE, files |-> FilesOf(sh.st, sh.nt, first)]
                               ELSE NoDir,
                     val |-> IF hasVal
                             THEN [exists |-> TRUE, files |-> FilesOf(sh.sv, sh.nv, 0)]
                             ELSE NoDir]
    /\ KernelInit

(***************************************************************************)
(* The iterator on its own: a batch-size-4 flow over flowers/train, as the *)
(* first generator cell builds it, drained by repeated next().             *)
(***************************************************************************)
InitFlow ==
    /\ seedKind = "id"
    /\ seedFlip = FALSE
    /\ \E st \in ClassSets, nt \in 1..MaxFlowSamples :
       \E first \in {0, Cardinality(st) - 1} :
          disk = [root |-> TRUE,
                  train |-> [exists |-> TRUE, files |-> FilesOf(st, nt, first)],
                  val |-> NoDir]
    /\ rng = Advanced
    /\ pc = 0
    /\ running = {}
    /\ executed = {}
    /\ raised = [c \in Cells |-> ""]
    /\ \E g \in [horizontal_flip : BOOLEAN, preprocessing : BOOLEAN], sh \in BOOLEAN :
       \E listing \in Listings(DOMAIN disk.train.files) :
          /\ generator = g
          /\ batches = NewFlow("train", disk.train, listing, SanityBatchSize, sh, 256, g)
    /\ names = {"generator", "batches"}
    /\ checked = <<>>
    /\ train_batches = NoFlow
    /\ val_batches = NoFlow
    /\ indices = <<>>
    /\ labels = <<>>
    /\ titles = <<>>
    /\ batch = NoBatch
    /\ served = [c \in Cells |-> <<>>]
    /\ layers = [l \in {} |-> 0]
    /\ pretrained = <<>>
    /\ preds = <<>>
    /\ model = NoModel
    /\ fit = NoFit
    /\ augRun = 0

\* for X, y in batches: one more round of the loop
DrainStep ==
    /\ pc = 0
    /\ batches.total_batches_seen < MaxNext
    /\ \E o \in IterNext(batches, rng) :
          /\ batches' = o.flow
          /\ batch' = o.batch
          /\ rng' = o.rng
    /\ UNCHANGED <<disk, seedKind, seedFlip, pc, running, executed, raised, names,
                   checked, generator, train_batches, val_batches, indices, labels, titles,
                   served, layers, pretrained, preds, model, fit, augRun>>

NextFlow == DrainStep

SpecFlow == InitFlow /\ [][NextFlow]_vars

(***************************************************************************)
(* The kernel: one cell at a time, in document order.  A cell that raises  *)
(* ends there; the bindings it made before the raise stay.  The cells that *)
(* follow may still be run.                                                *)
(***************************************************************************)
envVars == <<disk, seedKind, seedFlip>>
flowVars == <<generator, batches, train_batches, val_batches>>
netVars == <<layers, pretrained, preds, model>>

\* (mutant) a cell taken up while another is still in execution
ReadyWhileRunning(c) == pc = c

\* the kernel takes up cell c
Ready(c) == pc = c /\ running = {}

\* cell c runs from start to end in one step, ending with exception e ("" for none)
Finish(c, e) ==
    /\ pc' = c + 1
    /\ running' = running
    /\ executed' = executed \cup {c}
    /\ raised' = [raised EXCEPT ![c] = e]

\* cell c starts and stays in execution
Begin(c) ==
    /\ pc' = c + 1
    /\ running' = running \cup {c}
    /\ UNCHANGED <<executed, raised>>

\* a cell in execution ends
End(c, e) ==
    /\ running' = running \ {c}
    /\ executed' = executed \cup {c}
    /\ raised' = [raised EXCEPT ![c] = e]
    /\ pc' = pc

\* (mutant) a missing directory listed as an empty one
AlwaysListable(part) == TRUE

\* os.listdir(directory) succeeds
DirListable(part) == disk[part].exists

\* flow_from_directory: os.listdir raises on a missing directory
Flows(part, batchSize, shuffle, target, gen) ==
    IF ~DirListable(part) THEN {}
    ELSE {NewFlow(part, disk[part], l, batchSize, shuffle, target, gen)
          : l \in Listings(DOMAIN disk[part].files)}

\* import tensorflow / from ...vgg19 import VGG19
ImportCell(c) ==
    /\ c \in {1, 6}
    /\ Ready(c)
    /\ Finish(c, "")
    /\ UNCHANGED <<envVars, rng, names, checked, flowVars, indices, labels, titles,
                   batch, served, netVars, fit, augRun>>

\* the three os.path.isdir prints
CheckDataset ==
    /\ Ready(2)
    /\ checked' = <<disk.root, disk.train.exists, disk.val.exists>>
    /\ Finish(2, "")
    /\ UNCHANGED <<envVars, rng, names, flowVars, indices, labels, titles,
                   batch, served, netVars, fit, augRun>>

\* generator = ImageDataGenerator(); batches = generator.flow_from_directory(
\* 'flowers/train', batch_size=4)
MakeBatches ==
    /\ Ready(3)
    /\ generator' = NoGenerator
    /\ IF DirListable("train")
       THEN /\ batches' \in Flows("train", SanityBatchSize, TRUE, 256, NoGenerator)
            /\ names' = names \cup {"generator", "batches"}
            /\ Finish(3, "")
       ELSE /\ batches' = batches
            /\ names' = names \cup {"generator"}
            /\ Finish(3, "FileNotFoundError")
    /\ UNCHANGED <<envVars, rng, checked, train_batches, val_batches, indices, labels,
                   titles, batch, served, netVars, fit, augRun>>

\* (mutant) labels[indices[key]] = indices[key]
RECURSIVE FillLabelsWithIndex(_, _, _)
FillLabelsWithIndex(lab, keys, ind) ==
    IF keys = <<>> THEN [labels |-> lab, error |-> ""]
    ELSE LET i == IndexOf(ind, Head(keys))
         IN  IF i >= Len(lab) THEN [labels |-> lab, error |-> "IndexError"]
             ELSE FillLabelsWithIndex([lab EXCEPT ![i + 1] = i], Tail(keys), ind)

\* for key in indices: labels[indices[key]] = key
RECURSIVE FillLabels(_, _, _)
FillLabels(lab, keys, ind) ==
    IF keys = <<>> THEN [labels |-> lab, error |-> ""]
    ELSE LET i == IndexOf(ind, Head(keys))
         IN  IF i >= Len(lab) THEN [labels |-> lab, error |-> "IndexError"]
             ELSE FillLabels([lab EXCEPT ![i + 1] = Head(keys)], Tail(keys), ind)

\* indices = batches.class_indices; labels = [None] * 17; the loop
ReverseEncoding ==
    /\ Ready(4)
    /\ IF "batches" \notin names
       THEN /\ UNCHANGED <<indices, labels, names>>
            /\ Finish(4, "NameError")
       ELSE LET r == FillLabels([k \in 1..NumLabels |-> None],
                                batches.class_names, batches.class_names)
            IN  /\ indices' = batches.class_names
                /\ labels' = r.labels
                /\ names' = names \cup {"indices", "labels"}
                /\ Finish(4, r.error)
    /\ UNCHANGED <<envVars, rng, checked, flowVars, titles, batch, served, netVars,
                   fit, augRun>>

\* (mutant) the loop without its break, stopped after two rounds
LoopTwice(f, r) == UNION {IterNext(o.flow, o.rng) : o \in IterNext(f, r)}

\* for X, y in batches: ...; break -- the loop takes one batch from the iterator
LoopOnce(f, r) == IterNext(f, r)

\* label = labels[np.argmax(y[i])] for the rows of y in turn
RECURSIVE Decode(_, _, _)
Decode(lab, y, shown) ==
    IF y = <<>> THEN [titles |-> shown, error |-> ""]
    ELSE IF "labels" \notin names THEN [titles |-> shown, error |-> "NameError"]
    ELSE LET i == ArgMax(Head(y))
         IN  IF i >= Len(lab) THEN [titles |-> shown, error |-> "IndexError"]
             ELSE Decode(lab, Tail(y), Append(shown, lab[i + 1]))

\* for X, y in batches: <show every image with its label>; break
ShowFirstBatch ==
    /\ Ready(5)
    /\ IF "batches" \notin names
       THEN /\ UNCHANGED <<batches, rng, batch, served, titles, names>>
            /\ Finish(5, "NameError")
       ELSE \E o \in LoopOnce(batches, rng) :
            LET d == Decode(labels, o.batch.y, <<>>)
            IN  /\ batches' = o.flow
                /\ rng' = o.rng
                /\ batch' = o.batch
                /\ served' = [served EXCEPT ![5] = Append(@, o.batch)]
                /\ titles' = d.titles
                /\ names' = names \cup {"X", "y"}
                /\ Finish(5, d.error)
    /\ UNCHANGED <<envVars, checked, generator, train_batches, val_batches, indices,
                   labels, netVars, fit, augRun>>

\* (mutant) the seed set in the first of the two sanity-check cells only
SeedRngFirstOnly(c, r) == IF c = 8 THEN Seed ELSE r

\* np.random.seed(1234), executed by cell c with the generator in state r
SeedRng(c, r) == Seed

\* np.random.seed(1234); generator = ImageDataGenerator([preprocessing_function]);
\* batches = generator.flow_from_directory('flowers/train', target_size, batch_size=1)
SeededBatches(c) ==
    /\ c \in {8, 10}
    /\ Ready(c)
    /\ rng' = SeedRng(c, rng)
    /\ generator' = [horizontal_flip |-> FALSE, preprocessing |-> (c = 10)]
    /\ IF DirListable("train")
       THEN /\ batches' \in Flows("train", 1, TRUE, TargetSize, generator')
            /\ names' = names \cup {"generator", "batches"}
            /\ Finish(c, "")
       ELSE /\ batches' = batches
            /\ names' = names \cup {"generator"}
            /\ Finish(c, "FileNotFoundError")
    /\ UNCHANGED <<envVars, checked, train_batches, val_batches, indices, labels,
                   titles, batch, served, netVars, fit, augRun>>

\* for X, y in batches: preds = model.predict(X); label = labels[argmax(y[0])]; break
PredictFirst(c) ==
    /\ c \in {9, 11}
    /\ Ready(c)
    /\ IF "batches" \notin names
       THEN /\ UNCHANGED <<batches, rng, batch, served, titles, names>>
            /\ Finish(c, "NameError")
       ELSE \E o \in LoopOnce(batches, rng) :
            LET d == Decode(labels, Slice(o.batch.y, 0, 1), <<>>)
            IN  /\ batches' = o.flow
                /\ rng' = o.rng
                /\ batch' = o.batch
                /\ served' = [served EXCEPT ![c] = Append(@, o.batch)]
                /\ titles' = d.titles
                /\ names' = names \cup {"X", "y", "preds"}
                /\ Finish(c, d.error)
    /\ UNCHANGED <<envVars, checked, generator, train_batches, val_batches, indices,
                   labels, netVars, fit, augRun>>

(***************************************************************************)
(* Models and layers.  A layer object is [kind, units, trainable, w]; w    *)
(* counts the gradient updates applied to its weights since they were      *)
(* loaded or initialised.                                                  *)
(***************************************************************************)
NewLayer(kind, units) == [kind |-> kind, units |-> units, trainable |-> TRUE, w |-> 0]

PretrainedIds == 1..NumPretrainedLayers
Hidden4 == NumPretrainedLayers + 1
Preds4 == NumPretrainedLayers + 2
Hidden5 == NumPretrainedLayers + 3
Dropout5 == NumPretrainedLayers + 4
Preds5 == NumPretrainedLayers + 5

\* model = VGG19(weights='imagenet', include_top=True, input_shape=(224, 224, 3))
LoadFullVGG ==
    /\ Ready(7)
    /\ layers' = layers @@ (0 :> NewLayer("vgg19", 1000))
    /\ model' = [layers |-> {0}, compiled |-> FALSE, units |-> 1000]
    /\ names' = names \cup {"model"}
    /\ Finish(7, "")
    /\ UNCHANGED <<envVars, rng, checked, flowVars, indices, labels, titles, batch,
                   served, pretrained, preds, fit, augRun>>

\* pretrained = VGG19(include_top=False, ..., pooling='max'); inputs; outputs
LoadPretrained ==
    /\ Ready(12)
    /\ layers' = layers @@ [l \in PretrainedIds |-> NewLayer("conv", 0)]
    /\ pretrained' = [k \in 1..NumPretrainedLayers |-> k]
    /\ names' = names \cup {"pretrained", "inputs", "outputs"}
    /\ Finish(12, "")
    /\ UNCHANGED <<envVars, rng, checked, flowVars, indices, labels, titles, batch,
                   served, preds, model, fit, augRun>>

\* (mutant) the loop stops one layer short
RECURSIVE FreezeAllButLast(_, _)
FreezeAllButLast(ls, todo) ==
    IF Len(todo) <= 1 THEN ls
    ELSE FreezeAllButLast([ls EXCEPT ![Head(todo)].trainable = FALSE], Tail(todo))

\* for layer in pretrained.layers: layer.trainable = False
RECURSIVE FreezeAll(_, _)
FreezeAll(ls, todo) ==
    IF todo = <<>> THEN ls
    ELSE FreezeAll([ls EXCEPT ![Head(todo)].trainable = FALSE], Tail(todo))

Freeze ==
    /\ Ready(13)
    /\ IF "pretrained" \notin names
       THEN /\ layers' = layers
            /\ Finish(13, "NameError")
       ELSE /\ layers' = FreezeAll(layers, pretrained)
            /\ Finish(13, "")
    /\ UNCHANGED <<envVars, rng, names, checked, flowVars, indices, labels, titles,
                   batch, served, pretrained, preds, model, fit, augRun>>

\* hidden = Dense(128, activation='relu')(outputs)
\* preds = Dense(17, activation='softmax')(hidden)
BuildHead ==
    /\ Ready(14)
    /\ IF "outputs" \notin names
       THEN /\ UNCHANGED <<layers, preds, names>>
            /\ Finish(14, "NameError")
       ELSE /\ layers' = layers @@ (Hidden4 :> NewLayer("dense", 128))
                                @@ (Preds4 :> NewLayer("dense", NumUnits))
            /\ preds' = pretrained \o <<Hidden4, Preds4>>
            /\ names' = names \cup {"hidden", "preds"}
            /\ Finish(14, "")
    /\ UNCHANGED <<envVars, rng, checked, flowVars, indices, labels, titles, batch,
                   served, pretrained, model, fit, augRun>>

\* Model(inputs, preds) followed by compile(...)
CompiledModel(ls, path) ==
    [layers |-> Range(path), compiled |-> TRUE, units |-> ls[path[Len(path)]].units]

\* model = Model(inputs, preds); model.compile(...)
CompileModel ==
    /\ Ready(15)
    /\ IF ~({"inputs", "preds"} \subseteq names) \/ preds = <<>>
       THEN /\ UNCHANGED <<model, names>>
            /\ Finish(15, "NameError")
       ELSE /\ model' = CompiledModel(layers, preds)
            /\ names' = names \cup {"model"}
            /\ Finish(15, "")
    /\ UNCHANGED <<envVars, rng, checked, flowVars, indices, labels, titles, batch,
                   served, layers, pretrained, preds, fit, augRun>>

\* the step-5 cell: a new Dense(128), Dropout(.3) and Dense(17) on `outputs`,
\* wrapped and compiled as `model`
BuildDropoutModel ==
    /\ Ready(17)
    /\ IF "outputs" \notin names
       THEN /\ UNCHANGED <<layers, preds, model, names>>
            /\ Finish(17, "NameError")
       ELSE /\ layers' = layers @@ (Hidden5 :> NewLayer("dense", 128))
                                @@ (Dropout5 :> NewLayer("dropout", 0))
                                @@ (Preds5 :> NewLayer("dense", NumUnits))
            /\ preds' = pretrained \o <<Hidden5, Dropout5, Preds5>>
            /\ model' = CompiledModel(layers', preds')
            /\ names' = names \cup {"hidden", "dropout", "preds", "model"}
            /\ Finish(17, "")
    /\ UNCHANGED <<envVars, rng, checked, flowVars, indices, labels, titles, batch,
                   served, pretrained, fit, augRun>>

(***************************************************************************)
(* Model.fit(train_batches, epochs=1, validation_data=val_batches,         *)
(*           steps_per_epoch=len(train_batches),                           *)
(*           validation_steps=len(val_batches))                            *)
(***************************************************************************)
PreGenerator == [horizontal_flip |-> FALSE, preprocessing |-> TRUE]

\* (mutant) a step updates every trainable layer with weights, of any model
UpdatedAnyModel(ls, m, l) == ls[l].trainable /\ ls[l].kind # "dropout"

\* which layers one optimizer step updates
Updated(ls, m, l) == l \in m.layers /\ ls[l].trainable /\ ls[l].kind # "dropout"

\* one optimizer step on model m
TrainStep(ls, m) ==
    [l \in DOMAIN ls |-> IF Updated(ls, m, l) THEN [ls[l] EXCEPT !.w = @ + 1] ELSE ls[l]]

\* count the samples of a batch as consumed
Count(seen, idx) ==
    [k \in DOMAIN seen |-> seen[k] + Cardinality({j \in DOMAIN idx : idx[j] + 1 = k})]

\* the cell up to and including the call of fit
BeginFit(c) ==
    /\ c \in {16, 18}
    /\ Ready(c)
    /\ rng' = SeedRng(c, rng)
    /\ IF ~DirListable("train")
       THEN /\ UNCHANGED <<train_batches, val_batches, fit>>
            /\ names' = names \cup {"batch_size", "train_generator"}
            /\ Finish(c, "FileNotFoundError")
       ELSE /\ train_batches' \in Flows("train", TrainBatchSize, TRUE, TargetSize, PreGenerator)
            /\ IF ~DirListable("val")
               THEN /\ UNCHANGED <<val_batches, fit>>
                    /\ names' = names \cup {"batch_size", "train_generator",
                                            "train_batches", "val_generator"}
                    /\ Finish(c, "FileNotFoundError")
               ELSE /\ val_batches' \in Flows("val", TrainBatchSize, TRUE, TargetSize, PreGenerator)
                    /\ names' = names \cup {"batch_size", "train_generator",
                                            "train_batches", "val_generator", "val_batches"}
                    /\ IF ~model.compiled
                       THEN /\ fit' = fit
                            /\ Finish(c, "RuntimeError")
                       ELSE /\ fit' = [phase |-> "train", cell |-> c,
                                       steps_per_epoch |-> FlowLen(train_batches'),
                                       validation_steps |-> FlowLen(val_batches'),
                                       visited |-> {}, steps |-> 0, vsteps |-> 0,
                                       seen |-> [k \in 1..train_batches'.n |-> 0],
                                       vseen |-> [k \in 1..val_batches'.n |-> 0]]
                            /\ Begin(c)
    /\ UNCHANGED <<envVars, checked, generator, batches, indices, labels, titles,
                   batch, served, netVars, augRun>>

\* one training step: a batch not yet taken in this epoch (fit shuffles the
\* order of the batches), forward and backward pass, weight update
FitTrainStep ==
    /\ fit.phase = "train"
    /\ fit.cell \in running
    /\ fit.steps < fit.steps_per_epoch
    /\ \E i \in (0..(FlowLen(train_batches) - 1)) \ fit.visited :
       \E o \in GetItem(train_batches, rng, i) :
          /\ train_batches' = o.flow
          /\ rng' = o.rng
          /\ batch' = o.batch
          /\ IF Len(o.flow.class_names) # model.units
             THEN /\ fit' = [fit EXCEPT !.phase = "failed"]
                  /\ layers' = layers
                  /\ End(fit.cell, "ValueError")
             ELSE /\ fit' = [fit EXCEPT !.steps = @ + 1, !.visited = @ \cup {i},
                                        !.seen = Count(@, o.batch.idx)]
                  /\ layers' = TrainStep(layers, model)
                  /\ UNCHANGED <<pc, running, executed, raised>>
    /\ UNCHANGED <<envVars, names, checked, generator, batches, val_batches, indices,
                   labels, titles, served, pretrained, preds, model, augRun>>

\* the epoch's training steps are done: the training sequence is told, and
\* validation starts
FitBeginValidation ==
    /\ fit.phase = "train"
    /\ fit.cell \in running
    /\ fit.steps = fit.steps_per_epoch
    /\ \E o \in OnEpochEnd(train_batches, rng) :
          /\ train_batches' = o.flow
          /\ rng' = o.rng
    /\ fit' = [fit EXCEPT !.phase = "validate"]
    /\ UNCHANGED <<envVars, pc, running, executed, raised, names, checked, generator,
                   batches, val_batches, indices, labels, titles, batch, served,
                   netVars, augRun>>

\* one validation step: the batches in order, forward pass only
FitValStep ==
    /\ fit.phase = "validate"
    /\ fit.cell \in running
    /\ fit.vsteps < fit.validation_steps
    /\ \E o \in GetItem(val_batches, rng, fit.vsteps) :
          /\ val_batches' = o.flow
          /\ rng' = o.rng
          /\ batch' = o.batch
          /\ IF Len(o.flow.class_names) # model.units
             THEN /\ fit' = [fit EXCEPT !.phase = "failed"]
                  /\ End(fit.cell, "ValueError")
             ELSE /\ fit' = [fit EXCEPT !.vsteps = @ + 1, !.vseen = Count(@, o.batch.idx)]
                  /\ UNCHANGED <<pc, running, executed, raised>>
    /\ UNCHANGED <<envVars, names, checked, generator, batches, train_batches, indices,
                   labels, titles, served, netVars, augRun>>

\* fit returns its History
FitReturn ==
    /\ fit.phase = "validate"
    /\ fit.cell \in running
    /\ fit.vsteps = fit.validation_steps
    /\ fit' = [fit EXCEPT !.phase = "done"]
    /\ End(fit.cell, "")
    /\ UNCHANGED <<envVars, rng, names, checked, flowVars, indices, labels, titles,
                   batch, served, netVars, augRun>>

(***************************************************************************)
(* Augmentation.                                                           *)
(***************************************************************************)
FlipGenerator == [horizontal_flip |-> TRUE, preprocessing |-> FALSE]

\* np.random.seed(1234); generator = ImageDataGenerator(horizontal_flip=True);
\* batches = generator.flow_from_directory('flowers/train', batch_size=1, shuffle=False)
MakeFlipBatches ==
    /\ Ready(19)
    /\ rng' = SeedRng(19, rng)
    /\ generator' = FlipGenerator
    /\ IF DirListable("train")
       THEN /\ batches' \in Flows("train", 1, FALSE, 256, FlipGenerator)
            /\ names' = names \cup {"generator", "batches"}
            /\ Finish(19, "")
       ELSE /\ batches' = batches
            /\ names' = names \cup {"generator"}
            /\ Finish(19, "FileNotFoundError")
    /\ UNCHANGED <<envVars, checked, train_batches, val_batches, indices, labels,
                   titles, batch, served, netVars, fit, augRun>>

\* (mutant) shuffle left at its default
AugFlowsShuffled == Flows("train", 1, TRUE, 256, generator)

\* batches = generator.flow_from_directory('flowers/train', batch_size=1,
\* shuffle=False), in the loop
AugFlows == Flows("train", 1, FALSE, 256, generator)

\* fig, ax = plt.subplots(1, 5, ...)
BeginAugLoop ==
    /\ Ready(20)
    /\ Begin(20)
    /\ augRun' = 0
    /\ UNCHANGED <<envVars, rng, names, checked, flowVars, indices, labels, titles,
                   batch, served, netVars, fit>>

\* one round of `for i in range(5)`: a new flow, its first batch, break
AugRound ==
    /\ 20 \in running
    /\ augRun < AugRuns
    /\ IF ~DirListable("train")
       THEN /\ UNCHANGED <<batches, rng, batch, served, names, augRun>>
            /\ End(20, "FileNotFoundError")
       ELSE \E f \in AugFlows :
            \E o \in LoopOnce(f, rng) :
                /\ batches' = o.flow
                /\ rng' = o.rng
                /\ batch' = o.batch
                /\ served' = [served EXCEPT ![20] = Append(@, o.batch)]
                /\ names' = names \cup {"batches", "X", "y"}
                /\ augRun' = augRun + 1
                /\ UNCHANGED <<pc, running, executed, raised>>
    /\ UNCHANGED <<envVars, checked, generator, train_batches, val_batches, indices,
                   labels, titles, netVars, fit>>

\* the loop is over: plt.show()
EndAugLoop ==
    /\ 20 \in running
    /\ augRun = AugRuns
    /\ End(20, "")
    /\ UNCHANGED <<envVars, rng, names, checked, flowVars, indices, labels, titles,
                   batch, served, netVars, fit, augRun>>

(***************************************************************************)
(* The notebook.                                                           *)
(***************************************************************************)
Next ==
    \/ \E c \in Cells : ImportCell(c)
    \/ CheckDataset
    \/ MakeBatches
    \/ ReverseEncoding
    \/ ShowFirstBatch
    \/ LoadFullVGG
    \/ \E c \in Cells : SeededBatches(c)
    \/ \E c \in Cells : PredictFirst(c)
    \/ LoadPretrained
    \/ Freeze
    \/ BuildHead
    \/ CompileModel
    \/ \E c \in Cells : BeginFit(c)
    \/ FitTrainStep
    \/ FitBeginValidation
    \/ FitValStep
    \/ FitReturn
    \/ BuildDropoutModel
    \/ MakeFlipBatches
    \/ BeginAugLoop
    \/ AugRound
    \/ EndAugLoop

Spec == Init /\ [][Next]_vars

(***************************************************************************)
(* What the directory tree itself says about a file: the files of a part   *)
(* are numbered class directory by class directory, the directories in     *)
(* alphabetical order.                                                     *)
(***************************************************************************)
RECURSIVE FilesIn(_, _)
FilesIn(files, S) ==
    IF S = {} THEN 0
    ELSE LET nm == CHOOSE nm \in S : TRUE
         IN  files[nm] + FilesIn(files, S \ {nm})

FilesOnDisk(part) == FilesIn(disk[part].files, DOMAIN disk[part].files)

\* the class directory that holds file k
DirOfFile(part, k) ==
    LET files == disk[part].files
        before(nm) == FilesIn(files, {m \in DOMAIN files : m < nm})
    IN  CHOOSE nm \in DOMAIN files : before(nm) <= k /\ k < before(nm) + files[nm]

\* the place of a class directory in the alphabetical order of the directories
AlphabeticalPlace(part, nm) == Cardinality({m \in DOMAIN disk[part].files : m < nm})

\* row v is the one-hot label of file k of the part
LabelOfFile(part, k, v) ==
    /\ Len(v) = Cardinality(DOMAIN disk[part].files)
    /\ \A j \in DOMAIN v : v[j] \in {0, 1}
    /\ Cardinality({j \in DOMAIN v : v[j] = 1}) = 1
    /\ v[AlphabeticalPlace(part, DirOfFile(part, k)) + 1] = 1

\* the pictures that show file k: as stored, mirrored, and either preprocessed
ViewsOfFile(k) ==
    {FileImage(k), Mirror(FileImage(k)),
     Preprocess(FileImage(k)), Preprocess(Mirror(FileImage(k)))}

\* img shows file k of the part and no other file
ImageOfFile(part, k, img) ==
    /\ img \in ViewsOfFile(k)
    /\ \A k2 \in 0..(FilesOnDisk(part) - 1) : k2 # k => img \notin ViewsOfFile(k2)

\* every row of a batch pairs the picture of a file with that file's label
Paired(b) ==
    /\ Len(b.X) = Len(b.idx)
    /\ Len(b.y) = Len(b.idx)
    /\ \A j \in DOMAIN b.idx :
          /\ ImageOfFile(b.directory, b.idx[j], b.X[j])
          /\ LabelOfFile(b.directory, b.idx[j], b.y[j])

\* every batch the state remembers
AllBatches == ({batch} \cup UNION {Range(served[c]) : c \in Cells}) \ {NoBatch}

HeadLayers == {Hidden4, Preds4, Hidden5, Preds5}

(***************************************************************************)
(* C1: whatever number of training steps either fit call has made, every   *)
(* layer of the headless VGG19 (and every other layer outside the two      *)
(* heads) still has the weights it was loaded with; only the Dense layers  *)
(* of the heads are updated.                                               *)
(***************************************************************************)
C1_FrozenWeightsKept ==
    \A l \in DOMAIN layers : l \notin HeadLayers => layers[l].w = 0

C1_BothHeadsTrained ==
    /\ fit.phase = "done"
    /\ fit.cell = 18
    /\ layers[Hidden4].w > 0
    /\ layers[Preds4].w > 0
    /\ layers[Hidden5].w > 0
    /\ layers[Preds5].w > 0
    /\ \A l \in PretrainedIds : layers[l].w = 0

(***************************************************************************)
(* C2, as claimed: every batch of a batch-size-4 generator holds exactly 4 *)
(* image/label pairs, each image with its own label, whatever the number   *)
(* N of samples.                                                           *)
(***************************************************************************)
C2_EveryBatchHasFour ==
    batch # NoBatch =>
        /\ Len(batch.X) = SanityBatchSize
        /\ Len(batch.y) = SanityBatchSize
        /\ Paired(batch)

(***************************************************************************)
(* C2, amended: a batch-size-4 generator over N samples yields, pass after *)
(* pass, the samples in groups of 4 cut from an ordering of all N samples, *)
(* each image with its own label; every batch holds exactly 4 pairs except *)
(* the last batch of a pass, which holds the N - 4 * (ceil(N / 4) - 1)     *)
(* samples that are left (fewer than 4 when N is not divisible by 4).      *)
(***************************************************************************)
C2_FourExceptLastOfPass ==
    batch # NoBatch =>
        LET n == FilesOnDisk("train")
            passLen == CHOOSE q \in 1..n :
                          SanityBatchSize * q >= n /\ SanityBatchSize * (q - 1) < n
            pos == (batches.total_batches_seen - 1) % passLen
            size == IF pos < passLen - 1 THEN SanityBatchSize
                    ELSE n - SanityBatchSize * (passLen - 1)
        IN  /\ Len(batch.X) = size
            /\ Len(batch.y) = size
            /\ Paired(batch)
            /\ Len(batch.order) = n
            /\ Range(batch.order) = 0..(n - 1)
            /\ \A j \in 1..size : batch.idx[j] = batch.order[SanityBatchSize * pos + j]

C2_ShortLastBatch ==
    /\ batch # NoBatch
    /\ batches.total_batches_seen >= 2
    /\ batches.batch_index = 0
    /\ Len(batch.X) \in 1..(SanityBatchSize - 1)
    /\ FilesOnDisk("train") > SanityBatchSize

(***************************************************************************)
(* C3: the cells run one at a time and in document order, so the five      *)
(* steps start in order (existence check, first generator, first           *)
(* pretrained model, head, fit), each after the step before it has run to  *)
(* completion; a head exists only once the pretrained output tensor does,  *)
(* and fit is in progress or over only once the model is compiled and both *)
(* generators exist.                                                       *)
(***************************************************************************)
StepCells == <<2, 3, 7, 14, 16>>

C4_LabelsAreOneHot ==
    \A j \in DOMAIN batch.y : LabelOfFile(batch.directory, batch.idx[j], batch.y[j])

C4_MixedBatchServed ==
    /\ fit.phase = "train"
    /\ Len(batch.y) = TrainBatchSize
    /\ batch.y[1] # batch.y[2]
    /\ served[5] # <<>>
    /\ Len(served[5][1].y) = SanityBatchSize

(***************************************************************************)
(* C5: each of the flows the augmentation loop creates (horizontal_flip on, *)
(* shuffle off) serves as its first batch the first file of the dataset    *)
(* with that file's label, the picture either as stored or mirrored; the   *)
(* outcome may differ from one presentation to the next.                   *)
(***************************************************************************)
C5_FlipKeepsSampleAndLabel ==
    \A j \in DOMAIN served[20] :
        LET b == served[20][j]
        IN  /\ b.idx = <<0>>
            /\ Len(b.X) = 1
            /\ b.X[1] \in {FileImage(0), Mirror(FileImage(0))}
            /\ Len(b.y) = 1
            /\ LabelOfFile("train", 0, b.y[1])
            /\ b.y = served[20][1].y

C5_FlippedAndNot ==
    /\ 20 \in executed
    /\ Len(served[20]) = AugRuns
    /\ served[20][1].X[1] = Mirror(FileImage(0))
    /\ served[20][2].X[1] = FileImage(0)
    /\ served[20][3].X[1] = Mirror(FileImage(0))
    /\ FilesOnDisk("train") > 1

(***************************************************************************)
(* C6: seeded with 1234 before each of them is built, the step-2 flow (no  *)
(* preprocessing) and the step-3 flow (preprocess_input) go through the    *)
(* samples in the same order and serve the same sample as their first      *)
(* batch, the second picture being the first one preprocessed.             *)
(***************************************************************************)
C6_SeedFixesOrder ==
    (served[9] # <<>> /\ served[11] # <<>>) =>
        /\ served[11][1].order = served[9][1].order
        /\ served[11][1].idx = served[9][1].idx
        /\ served[11][1].y = served[9][1].y
        /\ served[11][1].X[1] = Preprocess(served[9][1].X[1])

C6_SameShuffledSample ==
    /\ 11 \in executed
    /\ served[9] # <<>>
    /\ served[11] # <<>>
    /\ served[11][1].idx # <<0>>
    /\ served[11][1].order # Identity(Len(served[11][1].order))
    /\ served[5] # <<>>
    /\ served[5][1].order # served[11][1].order

(***************************************************************************)
(* C7: the existence check prints its three booleans and ends normally     *)
(* whatever it finds; a missing directory raises FileNotFoundError in      *)
(* every cell that builds a generator over it and in no other way; no      *)
(* iterator, no batch and no training step ever comes from a missing       *)
(* directory.                                                              *)
(***************************************************************************)
C7_MissingDirectoryRaises ==
    /\ 2 \in executed =>
          /\ raised[2] = ""
          /\ checked = <<disk.root, disk.train.exists, disk.val.exists>>
    /\ \A c \in executed \cap {3, 8, 10, 19, 20} :
          (raised[c] = "FileNotFoundError") <=> ~disk.train.exists
    /\ \A c \in executed \cap {16, 18} :
          (raised[c] = "FileNotFoundError") <=> (~disk.train.exists \/ ~disk.val.exists)
    /\ \A c \in Cells \ {3, 8, 10, 16, 18, 19, 20} : raised[c] # "FileNotFoundError"
    /\ \A b \in AllBatches : disk[b.directory].exists
    /\ \A f \in {batches, train_batches, val_batches} :
          f.directory \in Parts => disk[f.directory].exists
    /\ (~disk.train.exists \/ ~disk.val.exists) =>
          /\ fit.phase = "idle"
          /\ \A l \in DOMAIN layers : layers[l].w = 0

C7_RunWithoutTrainDir ==
    /\ ~disk.train.exists
    /\ checked = <<TRUE, FALSE, TRUE>>
    /\ raised[3] = "FileNotFoundError"
    /\ raised[16] = "FileNotFoundError"
    /\ 20 \in executed

(***************************************************************************)
(* C8: a fit call that returns has made exactly ceil(N_train / 32)         *)
(* training steps and then exactly ceil(N_val / 32) validation steps, and  *)
(* has consumed every training sample once and every validation sample     *)
(* once, also when a size is not a multiple of 32; no validation step is   *)
(* made before the last training step.                                     *)
(***************************************************************************)
Batches32(n) ==
    CHOOSE q \in 0..n : TrainBatchSize * q >= n /\ TrainBatchSize * (q - 1) < n

C8_OneEpochCoversAll ==
    /\ fit.vsteps > 0 => fit.steps = Batches32(FilesOnDisk("train"))
    /\ fit.phase \in {"train", "validate"} =>
          /\ fit.steps <= Batches32(FilesOnDisk("train"))
          /\ fit.vsteps <= Batches32(FilesOnDisk("val"))
    /\ fit.phase = "done" =>
          /\ fit.steps = Batches32(FilesOnDisk("train"))
          /\ fit.vsteps = Batches32(FilesOnDisk("val"))
          /\ Len(fit.seen) = FilesOnDisk("train")
          /\ Len(fit.vseen) = FilesOnDisk("val")
          /\ \A k \in DOMAIN fit.seen : fit.seen[k] = 1
          /\ \A k \in DOMAIN fit.vseen : fit.vseen[k] = 1
          /\ fit.cell \in executed
          /\ raised[fit.cell] = ""

C8_FitOverPartialBatches ==
    /\ fit.phase = "done"
    /\ fit.steps = 2
    /\ fit.vsteps = 2
    /\ FilesOnDisk("train") % TrainBatchSize # 0
    /\ FilesOnDisk("val") % TrainBatchSize # 0

(***************************************************************************)
(* C9: each sanity-check loop takes exactly one batch from its iterator    *)
(* and ends, although the iterator always has a next batch (at the end of  *)
(* a pass it is back at batch 0); the augmentation loop takes AugRuns      *)
(* batches in all, the first batch of each of AugRuns new flows.           *)
(***************************************************************************)
C9_LoopsTakeOneBatch ==
    /\ \A c \in {5, 9, 11} :
          /\ Len(served[c]) <= 1
          /\ (c \in executed /\ raised[c] \in {"", "IndexError"}) => Len(served[c]) = 1
          /\ (pc = c + 1 /\ served[c] # <<>>) => batches.total_batches_seen = 1
    /\ Len(served[20]) <= AugRuns
    /\ (20 \in running \/ 20 \in executed) =>
          /\ Len(served[20]) = augRun
          /\ augRun > 0 => batches.total_batches_seen = 1
    /\ (20 \in executed /\ raised[20] = "") => Len(served[20]) = AugRuns
    /\ \A f \in {batches, train_batches, val_batches} :
          f.n > 0 => f.batch_index * f.batch_size < f.n

C9_AugLoopDone ==
    /\ 20 \in executed
    /\ raised[20] = ""
    /\ Len(served[20]) = AugRuns
    /\ Len(served[5]) = 1
    /\ Len(served[9]) = 1
    /\ Len(served[11]) = 1
    /\ batches.n = 1
    /\ batches.batch_index = 0

(***************************************************************************)
(* C10: once the reverse-encoding cell has run on a generator, with        *)
(* exactly NumLabels class directories labels holds no None and every      *)
(* class name once, labels[indices[k]] = k for every class k, and every    *)
(* sanity check shows each sample under the name of its directory; with    *)
(* more directories the cell raises IndexError; with fewer some entries    *)
(* stay None.                                                              *)
(***************************************************************************)
C10_LabelsInvertIndices ==
    (4 \in executed /\ raised[4] # "NameError") =>
        LET dirs == DOMAIN disk.train.files
            c == Cardinality(dirs)
        IN  /\ Len(labels) = NumLabels
            /\ Range(indices) = dirs
            /\ c = NumLabels =>
                  /\ raised[4] = ""
                  /\ None \notin Range(labels)
                  /\ \A nm \in dirs :
                        /\ Cardinality({k \in DOMAIN labels : labels[k] = nm}) = 1
                        /\ labels[IndexOf(indices, nm) + 1] = nm
                  /\ \A cell \in {5, 9, 11} :
                        (pc = cell + 1 /\ served[cell] # <<>>) =>
                            /\ raised[cell] = ""
                            /\ Len(titles) = IF cell = 5 THEN Len(batch.y) ELSE 1
                            /\ \A j \in DOMAIN titles :
                                  titles[j] = DirOfFile("train", batch.idx[j])
            /\ c > NumLabels => raised[4] = "IndexError"
            /\ c < NumLabels =>
                  /\ raised[4] = ""
                  /\ None \in Range(labels)

C10_DecodedFirstBatch ==
    /\ pc = 6
    /\ raised[4] = ""
    /\ Len(indices) = NumLabels
    /\ Len(titles) = SanityBatchSize
    /\ titles[1] # titles[2]
    /\ batch.idx[1] # 0

(***************************************************************************)
(* The label-to-index mapping across generators.                           *)
(***************************************************************************)
SameClassDirs ==
    /\ disk.train.exists
    /\ disk.val.exists
    /\ DOMAIN disk.train.files = DOMAIN disk.val.files

\* the number of class directories of a part
ClassDirs(part) == Cardinality(DOMAIN disk[part].files)

\* the row that `indices`, read from the first generator, gives file k of train
RowByIndices(k) == OneHot(IndexOf(indices, DirOfFile("train", k)), Len(indices))

\* every generator over flowers/train numbers the classes as the first one
\* did, whatever its batch size, target size, shuffle, seed, preprocessing or
\* flip; `labels` decodes the later sanity checks; with the same directory
\* names, flowers/val is numbered as flowers/train
MappingShared ==
    /\ (4 \in executed /\ raised[4] # "NameError") =>
          /\ \A f \in {batches, train_batches} :
                f.directory = "train" => f.class_names = indices
          /\ batch # NoBatch /\ batch.directory = "train" =>
                \A j \in DOMAIN batch.y : batch.y[j] = RowByIndices(batch.idx[j])
          /\ \A cell \in {9, 11} :
                (pc = cell + 1 /\ served[cell] # <<>>) =>
                    LET nm == DirOfFile("train", batch.idx[1])
                    IN  IF IndexOf(indices, nm) < NumLabels
                        THEN raised[cell] = "" /\ titles = <<nm>>
                        ELSE raised[cell] = "IndexError"
    /\ SameClassDirs =>
          /\ (train_batches # NoFlow /\ val_batches # NoFlow) =>
                train_batches.class_names = val_batches.class_names
          /\ batch # NoBatch /\ batch.directory = "val" =>
                \A j \in DOMAIN batch.y :
                    batch.y[j] = OneHot(AlphabeticalPlace("train",
                                            DirOfFile("val", batch.idx[j])),
                                        ClassDirs("train"))

(***************************************************************************)
(* C11, as claimed: the mapping is the same in every generator, `labels`   *)
(* stays valid for the later sanity checks, and when flowers/train and     *)
(* flowers/val hold the same class directory names a class has the same    *)
(* index in both and the labels of every training and validation step fit  *)
(* attempts are as wide as the model's 17 output units.                    *)
(***************************************************************************)
C11_SameMappingWidth17 ==
    /\ MappingShared
    /\ (SameClassDirs /\ (fit.steps > 0 \/ fit.vsteps > 0 \/ fit.phase = "failed")) =>
          /\ model.units = NumUnits
          /\ Len(train_batches.class_names) = model.units
          /\ Len(val_batches.class_names) = model.units

(***************************************************************************)
(* C11, amended: the mapping is the same in every generator, `labels`      *)
(* stays valid for the later sanity checks, and with the same directory    *)
(* names a class has the same index in train_batches and val_batches; the  *)
(* label width is the number of class directories, which is the model's 17 *)
(* output units in every step fit completes, and with another number of    *)
(* directories the first step of fit raises ValueError and no training or  *)
(* validation step is completed.                                           *)
(***************************************************************************)
C11_SameMappingWidthOfDirs ==
    /\ MappingShared
    /\ fit.phase # "idle" =>
          /\ model.units = NumUnits
          /\ Len(train_batches.class_names) = ClassDirs("train")
          /\ Len(val_batches.class_names) = ClassDirs("val")
    /\ fit.steps > 0 => ClassDirs("train") = NumUnits
    /\ fit.vsteps > 0 => ClassDirs("val") = NumUnits
    /\ fit.phase = "failed" =>
          /\ raised[fit.cell] = "ValueError"
          /\ \/ ClassDirs("train") # NumUnits /\ fit.steps = 0
             \/ ClassDirs("val") # NumUnits /\ fit.vsteps = 0
    /\ (SameClassDirs /\ ClassDirs("train") # NumUnits /\ fit.phase # "idle") =>
          /\ fit.steps = 0
          /\ fit.vsteps = 0
          /\ fit.phase = "failed" \/ (fit.phase = "train" /\ fit.cell \in running)

C11_ValidatedWithSharedMapping ==
    /\ SameClassDirs
    /\ indices # <<>>
    /\ indices[1] # 1
    /\ served[9] # <<>>
    /\ served[11] # <<>>
    /\ fit.phase = "done"
    /\ fit.cell = 18
    /\ pc = 19
    /\ batch.directory = "val"

(***************************************************************************)
(* The two heads.                                                          *)
(***************************************************************************)
\* the training steps the step-4 fit made before it ended
StepsOfFirstFit ==
    IF 16 \in executed /\ raised[16] = "" THEN Batches32(FilesOnDisk("train")) ELSE 0

HeadOf4 == {Hidden4, Preds4}
HeadOf5 == {Hidden5, Dropout5, Preds5}

(***************************************************************************)
(* C12: the step-5 cell puts three new layers (Dense 128, Dropout, Dense   *)
(* 17) on the pretrained output and rebinds `model` to the pretrained      *)
(* layers plus that new head; the new Dense layers start untrained         *)
(* whatever training the step-4 head has had, the second fit updates them  *)
(* once per step and leaves the step-4 head as the first fit left it, and  *)
(* the pretrained layers - the same objects in both models - stay          *)
(* non-trainable and keep their loaded weights.                            *)
(***************************************************************************)
C12_NewHeadOnSharedBase ==
    /\ (15 \in executed /\ raised[15] = "" /\ 17 \notin executed) =>
          /\ model.layers = Range(pretrained) \cup HeadOf4
          /\ DOMAIN layers \cap HeadOf5 = {}
    /\ (17 \in executed /\ raised[17] = "") =>
          /\ HeadOf4 \cup HeadOf5 \subseteq DOMAIN layers
          /\ Range(pretrained) = PretrainedIds
          /\ model.layers = Range(pretrained) \cup HeadOf5
          /\ model.compiled
          /\ model.units = NumUnits
          /\ preds = pretrained \o <<Hidden5, Dropout5, Preds5>>
          /\ layers[Dropout5].kind = "dropout"
          /\ \A l \in {Hidden5, Preds5} :
                /\ layers[l].kind = "dense"
                /\ layers[l].trainable
                /\ layers[l].w = IF fit.cell = 18 THEN fit.steps ELSE 0
          /\ layers[Dropout5].w = 0
          /\ \A l \in HeadOf4 : layers[l].w = StepsOfFirstFit
          /\ \A l \in Range(pretrained) :
                /\ ~layers[l].trainable
                /\ layers[l].w = 0

C12_SecondHeadBehindFirst ==
    /\ fit.cell = 18
    /\ fit.phase = "train"
    /\ fit.steps = 1
    /\ layers[Hidden4].w = 2
    /\ layers[Preds4].w = 2
    /\ layers[Hidden5].w = 1
    /\ layers[Preds5].w = 1

=============================================================================
